---- MODULE Spec2Model ----
(***************************************************************************)
(* Model of app.py, the live supplier margin analyzer.                     *)
(*                                                                         *)
(* The script is re-executed top to bottom for every user interaction.     *)
(* One action of the model is one whole execution of the script.  The      *)
(* state kept between executions is the st.cache_data memo of              *)
(* fetch_data_from_json_url, the widget values held by the session and     *)
(* the page the last execution rendered.                                   *)
(*                                                                         *)
(* Numbers: pandas computes in float64.  The model computes the same       *)
(* expressions over exact rationals (n / d, reduced, d > 0) extended by    *)
(* NaN, -inf and +inf, which is where float64 division by zero lands.      *)
(* Rounding is not modelled.                                               *)
(*                                                                         *)
(* Missing values: a nullable field is the empty set when missing (JSON    *)
(* null, pandas NaN / None) and a one-element set otherwise.               *)
(*                                                                         *)
(* Strings: price_library_id is the sequence of its "_"-separated tokens;  *)
(* a Sales Discount Group name is the sequence of its characters.          *)
(*                                                                         *)
(* Scope: the three text inputs keep their default values, so the memo     *)
(* has one key.  plot_heatmap, st.pyplot and PdfPages are taken to         *)
(* succeed; a page records which matrices were handed to them.  sorted()   *)
(* only fixes the order of the options and of the group heatmaps; the      *)
(* model keeps both as sets.                                               *)
(***************************************************************************)
EXTENDS Integers, Sequences, FiniteSets, TLC

VARIABLES cache, response, widgets, ui

vars == <<cache, response, widgets, ui>>

\* Largest number of rows in the JSON array the endpoint returns.
MaxRecords == 2

----------------------------------------------------------------------------
\* Constants (app.py 11-14)

IND_OEM == <<"IND", "OEM">>
MOB_OEM == <<"MOB", "OEM">>
JOBBER == <<"JOBBER">>
USER == <<"USER">>
TP == <<"TP">>

CUSTOMER_TYPES == <<IND_OEM, MOB_OEM, JOBBER, USER, TP>>

CUSTOMER_SIZES == <<"HUGE", "LARGE", "MED", "SMALL", "TINY">>

MINIMUM_MARGINS == (IND_OEM :> 35) @@ (MOB_OEM :> 28) @@ (JOBBER :> 40) @@ (USER :> 35) @@ (TP :> 42)

SIZE_OFFSETS == [s \in {"HUGE", "LARGE", "MED", "SMALL", "TINY"} |->
                   CASE s = "HUGE" -> 0
                     [] s = "LARGE" -> 2
                     [] s = "MED" -> 4
                     [] s = "SMALL" -> 6
                     [] s = "TINY" -> 8]

Range(seq) == {seq[i] : i \in 1..Len(seq)}

----------------------------------------------------------------------------
\* float64 values: exact rationals plus NaN and the infinities

NaN == [k |-> "nan", n |-> 0, d |-> 1]

NegInf == [k |-> "-inf", n |-> 0, d |-> 1]

PosInf == [k |-> "inf", n |-> 0, d |-> 1]

Abs(x) == IF x < 0 THEN -x ELSE x

RECURSIVE Gcd(_, _)
Gcd(a, b) == IF b = 0 THEN a ELSE Gcd(b, a % b)

\* the float n / d, d # 0
Fin(n, d) ==
    LET g == Gcd(Abs(n), Abs(d))
        sg == IF d < 0 THEN -1 ELSE 1
    IN [k |-> "fin", n |-> (sg * n) \div g, d |-> (sg * d) \div g]

\* float division x / y of two finite floats (IEEE 754: x/0 is +-inf, 0/0 is NaN)
Div(x, y) ==
    IF y.n = 0
    THEN IF x.n = 0 THEN NaN ELSE IF x.n < 0 THEN NegInf ELSE PosInf
    ELSE Fin(x.n * y.d, x.d * y.n)

\* float addition
Add(x, y) ==
    CASE x.k = "nan" \/ y.k = "nan" -> NaN
      [] x.k = "fin" /\ y.k = "fin" -> Fin(x.n * y.d + y.n * x.d, x.d * y.d)
      [] x.k = "fin" -> y
      [] y.k = "fin" -> x
      [] x.k = y.k -> x
      [] OTHER -> NaN

\* float multiplication by a finite non-zero float
Mul(x, y) ==
    CASE x.k = "fin" -> Fin(x.n * y.n, x.d * y.d)
      [] OTHER -> x

Neg(x) ==
    CASE x.k = "fin" -> Fin(-x.n, x.d)
      [] x.k = "-inf" -> PosInf
      [] x.k = "inf" -> NegInf
      [] OTHER -> NaN

\* float subtraction; a NaN operand gives NaN
Sub(x, y) == Add(x, Neg(y))

isna(v) == v.k = "nan"

----------------------------------------------------------------------------
\* The rows the endpoint can return.  Each is one JSON object; a field is
\* {} when null.

Row(id, sell, cost, supplier, group) ==
    [price_library_id |-> id, sell |-> sell, cost |-> cost,
     supplier |-> supplier, group |-> group]

A1 == <<"A", "1">>
Z100 == <<"Z", "1", "0", "0">>
G100Z == <<"1", "0", "0", "Z">>
AZB == <<"A", "Z", "B">>

RecordPool ==
    { Row({<<"JOBBER", "SMALL">>}, {100}, {55}, "ACME", {A1}),
      Row({<<"JOBBER", "SMALL">>}, {100}, {50}, "ACME", {Z100}),
      Row({<<"IND", "OEM", "HUGE">>}, {30}, {20}, "BOLT", {G100Z}),
      Row({<<"JOBBER", "SMALL">>}, {0}, {5}, "ACME", {A1}),
      Row({<<"JOBBER", "SMALL">>}, {0}, {0}, "ACME", {AZB}),
      Row({<<"JOBBER", "SMALL">>}, {}, {55}, "ACME", {A1}),
      Row({<<"JOBBER", "SMALL">>}, {-100}, {55}, "ACME", {A1}),
      Row({<<"TP", "TINY">>}, {100}, {}, "BOLT", {A1}),
      Row({<<"TP", "TINY">>}, {100}, {-10}, "BOLT", {A1}),
      Row({}, {100}, {20}, "ACME", {A1}),
      Row({<<"JOBBER", "small">>}, {100}, {20}, "ACME", {A1}),
      Row({<<"JOBBER", "SMALL", "TINY">>}, {100}, {20}, "ACME", {}) }

RECURSIVE SeqsUpTo(_, _)
SeqsUpTo(S, n) ==
    IF n = 0 THEN {<<>>}
    ELSE LET shorter == SeqsUpTo(S, n - 1)
         IN shorter \cup {Append(q, x) : q \in shorter, x \in S}

\* the JSON arrays the endpoint can return
Bodies == SeqsUpTo(RecordPool, MaxRecords)

----------------------------------------------------------------------------
\* fetch_data_from_json_url (app.py 16-29)

notna(x) == x # {}

val(x) == CHOOSE v \in x : TRUE

\* pd.DataFrame(response.json()): row i of the array gets index label i
DataFrame(body) ==
    [i \in 1..Len(body) |->
        [idx |-> i, price_library_id |-> body[i].price_library_id,
         sell |-> body[i].sell, cost |-> body[i].cost,
         supplier |-> body[i].supplier, group |-> body[i].group]]

\* SellPriceFilter without the test for a negative price
SellPriceNotNull(df) ==
    SelectSeq(df, LAMBDA r : notna(r.sell))

\* df[df['Sell Price'].notna() & (df['Sell Price'] >= 0)]
SellPriceFilter(df) ==
    SelectSeq(df, LAMBDA r : notna(r.sell) /\ val(r.sell) >= 0)

\* df[df['Item Cost'].notna() & (df['Item Cost'] >= 0)]
ItemCostFilter(df) ==
    SelectSeq(df, LAMBDA r : notna(r.cost) /\ val(r.cost) >= 0)

\* df[df['price_library_id'].notna()]
LibraryIdFilter(df) ==
    SelectSeq(df, LAMBDA r : notna(r.price_library_id))

SizeTokens == {"HUGE", "LARGE", "MED", "SMALL", "TINY"}

\* str.extract(r'^(.*?)_(HUGE|LARGE|MED|SMALL|TINY)$') on a token sequence:
\* the shortest prefix of k tokens that is followed by "_", one size token
\* and the end of the string.  No match gives (NaN, NaN).
extract(tokens) ==
    LET fits == {k \in 1..(Len(tokens) - 1) :
                    /\ Len(tokens) = k + 1
                    /\ tokens[k + 1] \in SizeTokens}
    IN IF fits = {}
       THEN [ctype |-> {}, csize |-> {}]
       ELSE LET k == CHOOSE m \in fits : \A o \in fits : m <= o
            IN [ctype |-> {SubSeq(tokens, 1, k)}, csize |-> {tokens[k + 1]}]

\* ((df['Sell Price'] - df['Item Cost']) / df['Sell Price']) * 100
MarginPct(sell, cost) ==
    Mul(Div(Fin(sell - cost, 1), Fin(sell, 1)), Fin(100, 1))

\* astype(str) of one Sales Discount Group value: None becomes 'None'
astype_str(group) ==
    IF notna(group) THEN val(group) ELSE <<"N", "o", "n", "e">>

\* lines 26-28: the derived columns of one row
Derive(r) ==
    LET m == extract(val(r.price_library_id))
    IN [idx |-> r.idx, price_library_id |-> r.price_library_id,
        sell |-> val(r.sell), cost |-> val(r.cost), supplier |-> r.supplier,
        ctype |-> m.ctype, csize |-> m.csize,
        margin |-> MarginPct(val(r.sell), val(r.cost)),
        group |-> astype_str(r.group)]

\* The body of fetch_data_from_json_url once requests.get has answered.
\* http.outcome is what the request did; an empty JSON array makes a frame
\* without columns, so df['Sell Price'] raises KeyError.
fetch_data_from_json_url(http) ==
    CASE http.outcome # "ok" -> [exc |-> http.outcome, df |-> <<>>]
      [] http.outcome = "ok" /\ http.body = <<>> -> [exc |-> "KeyError", df |-> <<>>]
      [] OTHER ->
           LET kept == LibraryIdFilter(ItemCostFilter(SellPriceFilter(DataFrame(http.body))))
           IN [exc |-> "", df |-> [i \in 1..Len(kept) |-> Derive(kept[i])]]

\* requests.get raising, raise_for_status raising, response.json() raising
HttpFailures == {"ConnectionError", "HTTPError", "JSONDecodeError"}

----------------------------------------------------------------------------
\* get_ideal_margin_matrix (app.py 31-36)

TypeSet == Range(CUSTOMER_TYPES)

SizeSet == Range(CUSTOMER_SIZES)

\* pd.DataFrame(index=..., columns=...): every cell missing
EmptyFrame(index, columns) ==
    [index |-> index, columns |-> columns,
     v |-> [t \in Range(index) |-> [s \in Range(columns) |-> {}]]]

\* FillIdeal with the inner loop ending one size early
RECURSIVE FillIdealShort(_, _, _)
FillIdealShort(matrix, i, j) ==
    IF i > Len(CUSTOMER_TYPES) THEN matrix
    ELSE IF j >= Len(CUSTOMER_SIZES) THEN FillIdealShort(matrix, i + 1, 1)
    ELSE LET ctype == CUSTOMER_TYPES[i]
             csize == CUSTOMER_SIZES[j]
         IN FillIdealShort([matrix EXCEPT !.v[ctype][csize] =
                               {MINIMUM_MARGINS[ctype] + SIZE_OFFSETS[csize]}],
                           i, j + 1)

\* the two nested for loops, from position (i, j) on
RECURSIVE FillIdeal(_, _, _)
FillIdeal(matrix, i, j) ==
    IF i > Len(CUSTOMER_TYPES) THEN matrix
    ELSE IF j > Len(CUSTOMER_SIZES) THEN FillIdeal(matrix, i + 1, 1)
    ELSE LET ctype == CUSTOMER_TYPES[i]
             csize == CUSTOMER_SIZES[j]
         IN FillIdeal([matrix EXCEPT !.v[ctype][csize] =
                          {MINIMUM_MARGINS[ctype] + SIZE_OFFSETS[csize]}],
                      i, j + 1)

\* matrix.astype(float): an int becomes a float, a missing object cell NaN
astype_float(matrix) ==
    [matrix EXCEPT !.v = [t \in Range(matrix.index) |->
                            [s \in Range(matrix.columns) |->
                               IF notna(matrix.v[t][s])
                               THEN Fin(val(matrix.v[t][s]), 1)
                               ELSE NaN]]]

get_ideal_margin_matrix ==
    astype_float(FillIdeal(EmptyFrame(CUSTOMER_TYPES, CUSTOMER_SIZES), 1, 1))

----------------------------------------------------------------------------
\* The aggregation (app.py 71-74, 84-88)

RECURSIVE SumFloats(_)
SumFloats(vals) ==
    IF vals = <<>> THEN Fin(0, 1) ELSE Add(vals[1], SumFloats(Tail(vals)))

\* aggfunc='mean': NaN values are skipped; no value left gives NaN
mean(vals) ==
    LET present == SelectSeq(vals, LAMBDA x : ~isna(x))
    IN IF present = <<>> THEN NaN
       ELSE Mul(SumFloats(present), Fin(1, Len(present)))

\* data.pivot_table(values='Margin %', index='Customer Type',
\*                  columns='Customer Size', aggfunc='mean')
\* Rows with a missing key belong to no group; groups whose mean is NaN are
\* dropped (dropna=True); the table spans the labels that remain.
pivot_table(data) ==
    LET keyed == SelectSeq(data, LAMBDA r : notna(r.ctype) /\ notna(r.csize))
        keys == {<<val(r.ctype), val(r.csize)>> : r \in Range(keyed)}
        margins == [i \in 1..Len(keyed) |->
                      [key |-> <<val(keyed[i].ctype), val(keyed[i].csize)>>,
                       margin |-> keyed[i].margin]]
        values(key) == LET of == SelectSeq(margins, LAMBDA m : m.key = key)
                       IN [i \in 1..Len(of) |-> of[i].margin]
        agg == [key \in keys |-> mean(values(key))]
        left == {key \in keys : ~isna(agg[key])}
        index == {key[1] : key \in left}
        columns == {key[2] : key \in left}
    IN [index |-> index, columns |-> columns,
        v |-> [t \in index |-> [s \in columns |->
                 IF <<t, s>> \in left THEN agg[<<t, s>>] ELSE NaN]]]

\* table.reindex(index=CUSTOMER_TYPES, columns=CUSTOMER_SIZES)
reindex(table) ==
    [index |-> CUSTOMER_TYPES, columns |-> CUSTOMER_SIZES,
     v |-> [t \in TypeSet |-> [s \in SizeSet |->
              IF t \in table.index /\ s \in table.columns
              THEN table.v[t][s] ELSE NaN]]]

\* Difference with a missing actual cell taken as 0
DifferenceFillZero(actual, ideal) ==
    [index |-> actual.index, columns |-> actual.columns,
     v |-> [t \in Range(actual.index) |-> [s \in Range(actual.columns) |->
              IF isna(actual.v[t][s])
              THEN Neg(ideal.v[t][s])
              ELSE Sub(actual.v[t][s], ideal.v[t][s])]]]

\* actual - ideal on two frames with the same labels
Difference(actual, ideal) ==
    [index |-> actual.index, columns |-> actual.columns,
     v |-> [t \in Range(actual.index) |-> [s \in Range(actual.columns) |->
              Sub(actual.v[t][s], ideal.v[t][s])]]]

\* the three matrices drawn for one record subset
Heatmaps(sub) ==
    LET actual == reindex(pivot_table(sub))
        ideal == get_ideal_margin_matrix
    IN [actual |-> actual, ideal |-> ideal, difference |-> Difference(actual, ideal)]

----------------------------------------------------------------------------
\* The script body (app.py 44-123)

\* What every execution renders before the button is tested (lines 44-50):
\* the title, the three text inputs and the "Fetch and Analyze Data" button.
\* The remaining fields are the elements the try block can add.
Top(trigger, fetch_clicked) ==
    [trigger |-> trigger, fetch_clicked |-> fetch_clicked,
     selectbox |-> {}, selected_supplier |-> {},
     checkbox |-> FALSE, exclude_misc |-> {},
     data |-> {}, warning |-> FALSE, error |-> {}, info |-> FALSE,
     summary |-> {}, groups |-> [g \in {} |-> {}],
     pdf_button |-> FALSE, pdf_clicked |-> FALSE, download |-> {}]

startswith(name, c) == Len(name) >= 1 /\ name[1] = c

endswith(name, c) == Len(name) >= 1 /\ name[Len(name)] = c

\* ExcludeMisc testing only the start of the name
ExcludeStartsOnly(data, exclude_misc) ==
    IF exclude_misc
    THEN SelectSeq(data, LAMBDA r : ~startswith(r.group, "Z"))
    ELSE data

\* lines 60-62
ExcludeMisc(data, exclude_misc) ==
    IF exclude_misc
    THEN SelectSeq(SelectSeq(data, LAMBDA r : ~startswith(r.group, "Z")),
                   LAMBDA r : ~endswith(r.group, "Z"))
    ELSE data

\* lines 64-65
SupplierFilter(data, selected_supplier) ==
    IF selected_supplier # "ALL"
    THEN SelectSeq(data, LAMBDA r : r.supplier = selected_supplier)
    ELSE data

\* lines 82-92: one triple of heatmaps per discount group of data (drawn in
\* sorted order of the group names; the model keeps them by name)
GroupHeatmaps(data) ==
    LET group_options == {r.group : r \in Range(data)}
    IN [group \in group_options |->
          Heatmaps(SelectSeq(data, LAMBDA r : r.group = group))]

\* lines 96-118: the PDF behind the download button; file_name is derived
\* from the supplier name
PdfReport(selected_supplier, summary, data) ==
    [supplier |-> selected_supplier,
     pages |-> [summary |-> summary, groups |-> GroupHeatmaps(data)]]

\* GroupSection without the test for 'ALL'
GroupSectionAlways(page, selected_supplier, data, summary, pdf_clicked) ==
    [page EXCEPT !.groups = GroupHeatmaps(data),
                 !.pdf_button = TRUE,
                 !.pdf_clicked = pdf_clicked,
                 !.download = IF pdf_clicked
                              THEN {PdfReport(selected_supplier, summary, data)}
                              ELSE {}]

\* lines 80-120: what follows the summary heatmaps
GroupSection(page, selected_supplier, data, summary, pdf_clicked) ==
    IF selected_supplier # "ALL"
    THEN [page EXCEPT !.groups = GroupHeatmaps(data),
                      !.pdf_button = TRUE,
                      !.pdf_clicked = pdf_clicked,
                      !.download = IF pdf_clicked
                                   THEN {PdfReport(selected_supplier, summary, data)}
                                   ELSE {}]
    ELSE [page EXCEPT !.info = TRUE]

\* Report without the test for an empty record set
ReportNoEmptyCheck(page, selected_supplier, data, pdf_clicked) ==
    LET summary == Heatmaps(data)
    IN GroupSection([page EXCEPT !.summary = {summary}],
                    selected_supplier, data, summary, pdf_clicked)

\* lines 67-120
Report(page, selected_supplier, data, pdf_clicked) ==
    IF data = <<>>
    THEN [page EXCEPT !.warning = TRUE]
    ELSE LET summary == Heatmaps(data)
         IN GroupSection([page EXCEPT !.summary = {summary}],
                         selected_supplier, data, summary, pdf_clicked)

\* lines 53-120: the try block after the fetch returned df.  w holds what
\* the selectbox, the checkbox and the "Generate PDF" button return.
Analyze(page, df, w) ==
    LET suppliers == {r.supplier : r \in Range(df)}
        suppliers_dropdown == {"ALL"} \cup suppliers
        selected_supplier == IF w.supplier \in suppliers_dropdown
                             THEN w.supplier ELSE "ALL"
        exclude_misc == w.exclude
        data == SupplierFilter(ExcludeMisc(df, exclude_misc), selected_supplier)
    IN Report([page EXCEPT !.selectbox = suppliers_dropdown,
                           !.selected_supplier = {selected_supplier},
                           !.checkbox = TRUE,
                           !.exclude_misc = {exclude_misc},
                           !.data = {data}],
              selected_supplier, data, w.pdf)

\* OnException catching only requests.HTTPError
OnExceptionHttpOnly(page, exc) ==
    IF exc = "HTTPError" THEN [page EXCEPT !.error = {exc}] ELSE page

\* lines 122-123: except Exception as e: st.error(...)
OnException(page, exc) == [page EXCEPT !.error = {exc}]

\* lines 50-123 with the button pressed; got is what
\* fetch_data_from_json_url returned or raised
TryBlock(page, got, w) ==
    IF got.exc # ""
    THEN OnException(page, got.exc)
    ELSE Analyze(page, got.df, w)

\* the widget values of a session that has not touched the widgets
\* (selectbox index 0, checkbox value=True, button not pressed)
Defaults == [supplier |-> "ALL", exclude |-> TRUE, pdf |-> FALSE]

----------------------------------------------------------------------------
\* Executions of the script.  The framework runs the script once when the
\* page is loaded and once for every interaction it is told of.  A button
\* returns True only in an execution started by its own click; a selectbox or
\* checkbox returns the value the browser last sent for it.  Interactions that
\* arrive before the next execution starts are folded into that execution.

Init ==
    /\ cache = {}
    /\ response = <<>>
    /\ widgets = Defaults
    /\ ui = Top("load", FALSE)

\* "Fetch and Analyze Data" is clicked and nothing is memoized yet: the
\* function body runs, and its result is memoized unless it raised.
FetchMiss(w, http) ==
    /\ cache = {}
    /\ LET got == fetch_data_from_json_url(http)
       IN /\ cache' = IF got.exc = "" THEN {got.df} ELSE {}
          /\ response' = IF got.exc = "" THEN http.body ELSE response
          /\ ui' = TryBlock(Top("fetch", TRUE), got, w)
    /\ widgets' = w

\* "Fetch and Analyze Data" is clicked and the arguments are memoized
FetchHit(w) ==
    /\ cache # {}
    /\ ui' = TryBlock(Top("fetch", TRUE), [exc |-> "", df |-> val(cache)], w)
    /\ widgets' = w
    /\ UNCHANGED <<cache, response>>

\* the widget values that can accompany a click on the fetch button: a widget
\* differs from its default only if the page on screen shows it
Sendable ==
    {w \in [supplier : {"ALL"} \cup ui.selectbox, exclude : BOOLEAN, pdf : BOOLEAN] :
        /\ (~w.exclude => ui.checkbox)
        /\ (w.pdf => ui.pdf_button)}

ClickFetch ==
    \E w \in Sendable :
        \/ \E outcome \in HttpFailures : FetchMiss(w, [outcome |-> outcome, body |-> <<>>])
        \/ \E body \in Bodies : FetchMiss(w, [outcome |-> "ok", body |-> body])
        \/ FetchHit(w)

\* the user picks an entry of the selectbox: the script runs with the fetch
\* button not pressed
SelectSupplier ==
    \E s \in ui.selectbox :
        /\ widgets' = [widgets EXCEPT !.supplier = s, !.pdf = FALSE]
        /\ ui' = Top("select", FALSE)
        /\ UNCHANGED <<cache, response>>

\* the user toggles the checkbox
ToggleExclude ==
    /\ ui.checkbox
    /\ widgets' = [widgets EXCEPT !.exclude = ~widgets.exclude, !.pdf = FALSE]
    /\ ui' = Top("toggle", FALSE)
    /\ UNCHANGED <<cache, response>>

\* the user presses "Generate PDF"
ClickGeneratePdf ==
    /\ ui.pdf_button
    /\ widgets' = [widgets EXCEPT !.pdf = TRUE]
    /\ ui' = Top("pdf", FALSE)
    /\ UNCHANGED <<cache, response>>

Next ==
    \/ ClickFetch
    \/ SelectSupplier
    \/ ToggleExclude
    \/ ClickGeneratePdf

Spec == Init /\ [][Next]_vars

----------------------------------------------------------------------------
\* Vocabulary of the properties, stated over the JSON rows the endpoint
\* returned (response) and the page on screen (ui)

FiveTypes == {<<"IND", "OEM">>, <<"MOB", "OEM">>, <<"JOBBER">>, <<"USER">>, <<"TP">>}

FiveSizes == {"HUGE", "LARGE", "MED", "SMALL", "TINY"}

Cells == FiveTypes \X FiveSizes

\* every triple of heatmaps on the page
Shown == ui.summary \cup {ui.groups[g] : g \in DOMAIN ui.groups}

\* the JSON row has a usable price and cost and an identifier <type>_<size>
WellFormed(row) ==
    /\ row.sell # {} /\ \A x \in row.sell : x >= 0
    /\ row.cost # {} /\ \A x \in row.cost : x >= 0
    /\ \E id \in row.price_library_id :
          Len(id) >= 2 /\ id[Len(id)] \in FiveSizes

\* the JSON row is well formed and classified exactly (t, s)
Classified(row, t, s) ==
    /\ WellFormed(row)
    /\ row.price_library_id = {t \o <<s>>}

\* the name of the row's discount group starts or ends with Z
ZGroup(row) ==
    \E name \in row.group : name[1] = "Z" \/ name[Len(name)] = "Z"

\* the JSON row is within the supplier selection and the exclusion the page
\* was rendered for
InScope(row) ==
    /\ ui.selected_supplier \in {{"ALL"}, {row.supplier}}
    /\ ui.exclude_misc = {TRUE} => ~ZGroup(row)

\* the discount group name as the page spells it
Spelled(row) == IF row.group = {} THEN <<"N", "o", "n", "e">> ELSE val(row.group)

\* the actual matrix of the well-formed rows among rows
ActualOf(rows) ==
    LET got == fetch_data_from_json_url([outcome |-> "ok", body |-> rows])
    IN reindex(pivot_table(got.df))

\* the in-scope rows of the response
ScopeRows == SelectSeq(response, InScope)

----------------------------------------------------------------------------
\* C1: in the summary and in every per-discount-group triple, each cell of
\* the difference matrix is actual - ideal where the actual cell is defined,
\* and is undefined where the actual cell is undefined.
C1_DifferenceCellwise ==
    \A h \in Shown : \A c \in Cells :
        LET a == h.actual.v[c[1]][c[2]]
            i == h.ideal.v[c[1]][c[2]]
            d == h.difference.v[c[1]][c[2]]
        IN CASE a.k = "nan" -> d.k = "nan"
             [] a.k = "fin" -> /\ d.k = "fin"
                               /\ d.n * a.d * i.d = (a.n * i.d - i.n * a.d) * d.d
             [] OTHER -> d.k = a.k

\* a supplier page whose summary and one group triple each have a defined
\* and an undefined actual cell
C1_Witness ==
    /\ \E h \in ui.summary : \E c1, c2 \in Cells :
          h.actual.v[c1[1]][c1[2]].k = "fin" /\ h.actual.v[c2[1]][c2[2]].k = "nan"
    /\ \E g \in DOMAIN ui.groups : \E c1, c2 \in Cells :
          /\ ui.groups[g].actual.v[c1[1]][c1[2]].k = "fin"
          /\ ui.groups[g].actual.v[c2[1]][c2[2]].k = "nan"

\* C2: every ideal matrix produced, whatever the rows, the supplier and the
\* exclusion flag, is the same 5x5 matrix with
\* ideal[type, size] = MINIMUM_MARGINS[type] + SIZE_OFFSETS[size], no cell
\* undefined, and ideal[JOBBER, SMALL] = 46.
C2_IdealMatrix ==
    \A h \in Shown :
        /\ DOMAIN h.ideal.v = FiveTypes
        /\ \A c \in Cells :
              /\ DOMAIN h.ideal.v[c[1]] = FiveSizes
              /\ h.ideal.v[c[1]][c[2]] =
                    [k |-> "fin", n |-> MINIMUM_MARGINS[c[1]] + SIZE_OFFSETS[c[2]], d |-> 1]
        /\ h.ideal.v[<<"JOBBER">>]["SMALL"] = [k |-> "fin", n |-> 46, d |-> 1]
        /\ h.ideal.v[<<"TP">>]["TINY"] = [k |-> "fin", n |-> 50, d |-> 1]
        /\ h.ideal.v[<<"MOB", "OEM">>]["HUGE"] = [k |-> "fin", n |-> 28, d |-> 1]

\* ideal matrices drawn for a single supplier with the exclusion switched off
C2_Witness ==
    /\ ui.summary # {}
    /\ DOMAIN ui.groups # {}
    /\ ui.exclude_misc = {FALSE}
    /\ Len(response) >= 2

\* C3: rows with a missing or negative sell price or item cost, or with a
\* missing or ill-formed identifier, contribute to no cell: every actual
\* matrix is the one obtained from the well-formed rows alone, and a defined
\* cell [t, s] has a well-formed in-scope row classified exactly (t, s).
C3_InvalidRowsExcluded ==
    /\ \A h \in ui.summary :
          /\ h.actual = ActualOf(SelectSeq(ScopeRows, WellFormed))
          /\ \A c \in Cells :
                h.actual.v[c[1]][c[2]].k # "nan" =>
                   \E i \in 1..Len(ScopeRows) : Classified(ScopeRows[i], c[1], c[2])
    /\ \A g \in DOMAIN ui.groups :
          LET of == SelectSeq(ScopeRows, LAMBDA row : Spelled(row) = g)
          IN /\ ui.groups[g].actual = ActualOf(SelectSeq(of, WellFormed))
             /\ \A c \in Cells :
                   ui.groups[g].actual.v[c[1]][c[2]].k # "nan" =>
                      \E i \in 1..Len(of) : Classified(of[i], c[1], c[2])

\* a summary drawn from a response that holds a well-formed row and an
\* in-scope row that is not
C3_Witness ==
    /\ ui.summary # {}
    /\ \E i, j \in 1..Len(ScopeRows) :
          WellFormed(ScopeRows[i]) /\ ~WellFormed(ScopeRows[j])

\* the indices of the in-scope rows classified (t, s) whose sell price is
\* not zero, the rows whose margin percentage is a number
Priced(t, s) ==
    {i \in 1..Len(ScopeRows) :
        Classified(ScopeRows[i], t, s) /\ ScopeRows[i].sell # {0}}

RECURSIVE SellProduct(_)
SellProduct(I) ==
    IF I = {} THEN 1
    ELSE LET i == CHOOSE x \in I : TRUE
         IN val(ScopeRows[i].sell) * SellProduct(I \ {i})

\* the sum over I of (sell - cost) / sell * 100, times D, a multiple of
\* every sell price in I
RECURSIVE MarginSum(_, _)
MarginSum(I, D) ==
    IF I = {} THEN 0
    ELSE LET i == CHOOSE x \in I : TRUE
             row == ScopeRows[i]
         IN (val(row.sell) - val(row.cost)) * 100 * (D \div val(row.sell))
              + MarginSum(I \ {i}, D)

\* cell is the arithmetic mean of the margin percentages of the rows I
IsMeanOf(cell, I) ==
    /\ cell.k = "fin"
    /\ cell.n * SellProduct(I) * Cardinality(I) = MarginSum(I, SellProduct(I)) * cell.d

\* C4: a row whose sell price is 0 has no margin percentage and is left out
\* of every mean: each actual matrix is the one obtained without the rows
\* of sell price 0 (so a cell that has only such rows is undefined).
C4_ZeroSellPriceLeftOut ==
    /\ \A h \in ui.summary :
          h.actual = ActualOf(SelectSeq(ScopeRows, LAMBDA row : row.sell # {0}))
    /\ \A g \in DOMAIN ui.groups :
          ui.groups[g].actual =
             ActualOf(SelectSeq(ScopeRows,
                                LAMBDA row : Spelled(row) = g /\ row.sell # {0}))

\* C5: the actual matrix has the five types as rows and the five sizes as
\* columns in the fixed order; cell [t, s] is the arithmetic mean of
\* (sell - cost) / sell * 100 over exactly the rows classified (t, s), and is
\* undefined when there is no such row.
C5_ActualIsMean ==
    \A h \in ui.summary :
        /\ h.actual.index = <<<<"IND", "OEM">>, <<"MOB", "OEM">>, <<"JOBBER">>, <<"USER">>, <<"TP">>>>
        /\ h.actual.columns = <<"HUGE", "LARGE", "MED", "SMALL", "TINY">>
        /\ DOMAIN h.actual.v = FiveTypes
        /\ \A c \in Cells :
              /\ DOMAIN h.actual.v[c[1]] = FiveSizes
              /\ IF Priced(c[1], c[2]) = {}
                 THEN h.actual.v[c[1]][c[2]].k = "nan"
                 ELSE IsMeanOf(h.actual.v[c[1]][c[2]], Priced(c[1], c[2]))

\* C6: with 'ALL' selected no per-group heatmap is drawn and no PDF is
\* offered or generated; the summary, when drawn, is over the rows of all
\* suppliers.
C6_AllSuppressesGroupsAndPdf ==
    ui.selected_supplier = {"ALL"} =>
        /\ DOMAIN ui.groups = {}
        /\ ~ui.pdf_button
        /\ ui.download = {}
        /\ \A h \in ui.summary :
              h.actual = ActualOf(SelectSeq(response,
                            LAMBDA row : ui.exclude_misc = {TRUE} => ~ZGroup(row)))

\* 'ALL' is selected while "Generate PDF" was pressed, and the summary is
\* drawn from rows of two suppliers and two discount groups
C6_Witness ==
    /\ ui.selected_supplier = {"ALL"}
    /\ widgets.pdf
    /\ ui.summary # {}
    /\ \E d \in ui.data : \E i, j \in 1..Len(d) :
          d[i].supplier # d[j].supplier /\ d[i].group # d[j].group

\* the index labels of the rows the page aggregates
KeptIdx == {r.idx : r \in UNION {Range(d) : d \in ui.data}}

\* C7: with the exclusion enabled a fetched row is kept iff its discount
\* group name neither starts nor ends with 'Z' (and it is of the selected
\* supplier), and no such group gets a per-group matrix; with the exclusion
\* disabled no row is removed on account of its group name.
C7_ExcludeMisc ==
    ui.data # {} =>
        /\ \A df \in cache : \A r \in Range(df) :
              r.idx \in KeptIdx <=> InScope(response[r.idx])
        /\ ui.exclude_misc = {TRUE} =>
              \A g \in DOMAIN ui.groups : g[1] # "Z" /\ g[Len(g)] # "Z"
        /\ ui.pdf_button =>
              DOMAIN ui.groups =
                 {Spelled(response[r.idx]) : r \in {x \in UNION {Range(df) : df \in cache} :
                                                       InScope(response[x.idx])}}

\* the exclusion is enabled for a single supplier, a fetched row of that
\* supplier has a group name starting or ending with Z, and group heatmaps
\* are drawn
C7_Witness ==
    /\ ui.exclude_misc = {TRUE}
    /\ DOMAIN ui.groups # {}
    /\ \E df \in cache : \E i \in 1..Len(df) :
          /\ df[i].group \in {Z100, G100Z}
          /\ {df[i].supplier} = ui.selected_supplier

OnlyError ==
    /\ ui.error # {}
    /\ ui.selectbox = {} /\ ~ui.checkbox
    /\ Shown = {} /\ ~ui.pdf_button /\ ui.download = {}
    /\ ~ui.warning /\ ~ui.info

\* C9: an execution whose fetch fails (no connection, non-2xx status, body
\* that is not JSON) ends with the error message on the page and nothing
\* else rendered by it.
C9_FetchFailureShowsOnlyError ==
    [][\A o \in HttpFailures :
          (\E w \in Sendable : FetchMiss(w, [outcome |-> o, body |-> <<>>]))
             => (ui'.error = {o} /\ OnlyError')]_vars

\* a page rendered by a failed fetch
C9_Witness ==
    /\ ui.trigger = "fetch"
    /\ ui.error \cap HttpFailures # {}

\* C10: after a successful fetch, the execution started by picking a
\* supplier, toggling the exclusion or pressing "Generate PDF" renders the
\* result for the widget values then in force, and a press of "Generate PDF"
\* yields the download.
C10_InteractionRerenders ==
    (cache # {} /\ ui.trigger \in {"select", "toggle", "pdf"}) =>
        /\ ui.selected_supplier = {widgets.supplier}
        /\ ui.exclude_misc = {widgets.exclude}
        /\ ui.warning \/ ui.summary # {}
        /\ ui.trigger = "pdf" => ui.download # {}

====
